---- MODULE Spec2Model ----
(* State-machine model of src/bot.py: the /archieved command handler, the  *)
(* registry _active_archives, the runner() polling loop and the image      *)
(* finder find_latest_image.                                               *)
EXTENDS Integers, Sequences, FiniteSets, Bags, TLC

VARIABLES
    BOT_OWNER_ID,       \* configured owner id, 0 when unset (bot.py:15)
    SOURCE_CHANNEL_ID,  \* configured source channel id, 0 when unset (bot.py:14)
    history,            \* messages of the source channel, newest first
    active_archives,    \* _active_archives: key -> task (bot.py:67)
    pending,            \* bag of archieved() handlers suspended at an await
    tasks,              \* every asyncio task created for runner(), by creation order
    response,           \* what the last step sent with interaction.response.send_message
    probe               \* result of a stand-alone find_latest_image call

vars == <<BOT_OWNER_ID, SOURCE_CHANNEL_ID, history, active_archives, pending,
          tasks, response, probe>>

-----------------------------------------------------------------------------
(* Bounds of the model *)

\* number of runner tasks ever created; also bounds the start handlers in flight
MaxTasks == 2
\* number of messages ever posted to the source channel in the system model
MaxMsgs == 2
\* attachments and embeds per message in the image-finder inputs
MaxParts == 2

(* Program constants *)
LOOKBACK == 30

-----------------------------------------------------------------------------
(* Python values *)

\* None; an optional value x is None or Some(x)
None == << >>
Some(x) == <<x>>

\* strings whose characters the code inspects are sequences of characters
s_start == <<"s", "t", "a", "r", "t">>
s_stop == <<"s", "t", "o", "p">>
s_image_slash == <<"i", "m", "a", "g", "e", "/">>
s_image_png == <<"i", "m", "a", "g", "e", "/", "p", "n", "g">>
s_text_plain == <<"t", "e", "x", "t", "/", "p", "l", "a", "i", "n">>

\* str.lower on one character
LowerChar(c) ==
    CASE c = "S" -> "s" [] c = "T" -> "t" [] c = "A" -> "a" [] c = "R" -> "r"
      [] c = "O" -> "o" [] c = "P" -> "p" [] OTHER -> c

lower(s) == [i \in 1..Len(s) |-> LowerChar(s[i])]

IsSpace(c) == c \in {" ", "\t", "\n"}

RECURSIVE lstrip(_)
lstrip(s) == IF s # << >> /\ IsSpace(Head(s)) THEN lstrip(Tail(s)) ELSE s

RECURSIVE rstrip(_)
rstrip(s) ==
    IF s # << >> /\ IsSpace(s[Len(s)]) THEN rstrip(SubSeq(s, 1, Len(s) - 1)) ELSE s

strip(s) == rstrip(lstrip(s))

startswith(s, p) == Len(s) >= Len(p) /\ SubSeq(s, 1, Len(p)) = p

-----------------------------------------------------------------------------
(* Image finder *)

\* f"{msg.id}:{edited}:{url}"; ids and timestamps print without ':', so the
\* text determines the three parts and is kept as its parts and separators
Signature(id, edited, url) == <<id, ":", edited, ":", url>>

\* msg.edited_at.timestamp() if msg.edited_at else 0
Edited(msg) == IF msg.edited_at # None THEN msg.edited_at[1] ELSE 0

\* index of the first attachment with an image content type, 0 when none
RECURSIVE first_image_attachment(_, _)
first_image_attachment(atts, i) ==
    IF i > Len(atts) THEN 0
    ELSE LET ct == IF atts[i].content_type # None THEN atts[i].content_type[1] ELSE << >>
         IN IF startswith(ct, s_image_slash) THEN i
            ELSE first_image_attachment(atts, i + 1)

\* e.image and e.image.url
EmbedHasImage(e) ==
    /\ e.image # None
    /\ e.image[1].url # None
    /\ e.image[1].url[1] # ""

\* index of the first embed with an image url, 0 when none
RECURSIVE first_image_embed(_, _)
first_image_embed(embeds, i) ==
    IF i > Len(embeds) THEN 0
    ELSE IF EmbedHasImage(embeds[i]) THEN i
    ELSE first_image_embed(embeds, i + 1)

\* channel.history(limit=30, oldest_first=False)
Window(h) == SubSeq(h, 1, IF Len(h) < LOOKBACK THEN Len(h) ELSE LOOKBACK)

\* slip: the embeds of a message are looked at before its attachments
RECURSIVE scan_embeds_first(_, _)
scan_embeds_first(msgs, i) ==
    IF i > Len(msgs) THEN <<None, None>>
    ELSE LET msg == msgs[i]
             a == first_image_attachment(msg.attachments, 1)
             e == first_image_embed(msg.embeds, 1)
         IN IF e # 0
            THEN <<Signature(msg.id, Edited(msg), msg.embeds[e].image[1].url[1]),
                   Some(msg.embeds[e].image[1].url[1])>>
            ELSE IF a # 0
            THEN <<Signature(msg.id, Edited(msg), msg.attachments[a].url),
                   Some(msg.attachments[a].url)>>
            ELSE scan_embeds_first(msgs, i + 1)

RECURSIVE scan_messages(_, _)
scan_messages(msgs, i) ==
    IF i > Len(msgs) THEN <<None, None>>
    ELSE LET msg == msgs[i]
             a == first_image_attachment(msg.attachments, 1)
             e == first_image_embed(msg.embeds, 1)
         IN IF a # 0
            THEN <<Signature(msg.id, Edited(msg), msg.attachments[a].url),
                   Some(msg.attachments[a].url)>>
            ELSE IF e # 0
            THEN <<Signature(msg.id, Edited(msg), msg.embeds[e].image[1].url[1]),
                   Some(msg.embeds[e].image[1].url[1])>>
            ELSE scan_messages(msgs, i + 1)

\* the pair (sig, url) returned by find_latest_image
find_latest_image(h) == scan_messages(Window(h), 1)

-----------------------------------------------------------------------------
(* Owner check *)

\* slip: an unset owner id lets everybody in
is_owner_unset_open(user_id) == BOT_OWNER_ID = 0 \/ user_id = BOT_OWNER_ID

is_owner(user_id) == BOT_OWNER_ID # 0 /\ user_id = BOT_OWNER_ID

-----------------------------------------------------------------------------
(* Inputs *)

UserIds == {1, 2}
OwnerIds == {0, 1}
SourceIds == {0, 7}
\* interaction.guild_id: None in a direct message
GuildIds == {None, Some(1)}
\* mode as typed by the invoker
Modes == {s_start,
          <<" ", "S", "T", "A", "R", "T">>,
          <<"S", "t", "o", "p", " ">>,
          <<"s", "t", " ", "o", "p">>}
\* mode.lower().strip() of every input, computed once
normalized == [mode \in Modes |-> strip(lower(mode))]
\* the output_channel argument is a TextChannel or omitted
OutputArgs == {None, Some("TextChannel")}
\* interaction.channel
InvokeChannels == {"TextChannel", "Thread"}
\* what SOURCE_CHANNEL_ID resolves to; "NotFound" is fetch_channel raising
ResolvedChannels == {"TextChannel", "VoiceChannel", "NotFound"}

\* the message posted to the source channel in the system model
ImageMessage(id) ==
    [id |-> id, edited_at |-> None,
     attachments |-> <<[content_type |-> Some(s_image_png), url |-> "x.png"]>>,
     embeds |-> << >>]

-----------------------------------------------------------------------------
(* Registry and tasks *)

TaskIds == 1..Len(tasks)

\* task.done()
done(t) == tasks[t].pc = "done"

\* created for its key, neither cancel-requested nor finished
Live(t) == ~tasks[t].cancel /\ ~done(t)

\* _active_archives.pop(key, None); 0 stands for None
Popped(key) == IF key \in DOMAIN active_archives THEN active_archives[key] ELSE 0

\* slip: the entries of the invoking user are dropped whatever their guild
WithoutKey_AnyGuild(key) ==
    [k \in {j \in DOMAIN active_archives : j[2] # key[2]} |-> active_archives[k]]

WithoutKey(key) ==
    [k \in DOMAIN active_archives \ {key} |-> active_archives[k]]

\* task.cancel()
Cancelled(ts, t) == [ts EXCEPT ![t].cancel = TRUE]

\* asyncio.create_task(runner()): the coroutine has not run yet.
\*   pc        the await the coroutine is suspended at, "created" before its
\*             first step and "done" once it has ended
\*   cancel    task.cancel() was called
\*   session   the aiohttp.ClientSession of line 130
\*   last_sig  the local of line 128
\*   sig, url  the locals of line 133, kept while later lines of the cycle
\*             read them (fetch and post) and None otherwise
\* and, to state the properties,
\*   last_sent   signature of the latest archive post that succeeded
\*   failed_sig  signature whose fetch or post failed and that was neither
\*               reposted nor replaced by another image since
\*   note        how the task came to its pc: the operation that raised
\*               (at "warn"), the outcome of the cycle (at "sleep_end"),
\*               the await at which cancellation was observed (at "done")
\* slip: last_sig is kept per key, a new task takes over the value of the
\* latest task of its key
NewTask_Inherits(key) ==
    LET prev == {t \in TaskIds : tasks[t].key = key}
        latest == CHOOSE t \in prev : \A u \in prev : u <= t
    IN [key |-> key, pc |-> "created", cancel |-> FALSE, session |-> "none",
        last_sig |-> IF prev = {} THEN None ELSE tasks[latest].last_sig,
        sig |-> None, url |-> None,
        last_sent |-> None, failed_sig |-> None, note |-> ""]

NewTask(key) ==
    [key |-> key, pc |-> "created", cancel |-> FALSE, session |-> "none",
     last_sig |-> None, sig |-> None, url |-> None,
     last_sent |-> None, failed_sig |-> None, note |-> ""]

-----------------------------------------------------------------------------
(* /archieved handler *)

Frame == UNCHANGED <<BOT_OWNER_ID, SOURCE_CHANNEL_ID, history, probe>>

\* a branch that answers and returns
Reject(msg) ==
    /\ response' = msg
    /\ UNCHANGED <<active_archives, pending, tasks>>

\* slip: the task is looked up with get, its entry stays in the registry
Stop_KeepsEntry(key) ==
    LET task == Popped(key)
    IN /\ active_archives' = active_archives
       /\ IF task # 0 /\ ~done(task)
          THEN /\ tasks' = Cancelled(tasks, task)
               /\ response' = "stopped"
          ELSE /\ tasks' = tasks
               /\ response' = "No active /archieved running."
       /\ UNCHANGED pending

\* mode == "stop"
Stop(key) ==
    LET task == Popped(key)
    IN /\ active_archives' = WithoutKey(key)
       /\ IF task # 0 /\ ~done(task)
          THEN /\ tasks' = Cancelled(tasks, task)
               /\ response' = "stopped"
          ELSE /\ tasks' = tasks
               /\ response' = "No active /archieved running."
       /\ UNCHANGED pending

\* slip: the old task is popped and cancelled before the output channel is checked
StartResolved_PopsFirst(key, out_ch, ch, rest) ==
    IF ch = "NotFound" THEN
        /\ response' = "fetch_channel failed"
        /\ pending' = rest
        /\ UNCHANGED <<active_archives, tasks>>
    ELSE IF ch # "TextChannel" THEN
        /\ response' = "Source channel is not a text channel."
        /\ pending' = rest
        /\ UNCHANGED <<active_archives, tasks>>
    ELSE
        LET old == Popped(key)
        IN /\ active_archives' = WithoutKey(key)
           /\ tasks' = IF old # 0 /\ ~done(old) THEN Cancelled(tasks, old) ELSE tasks
           /\ IF out_ch # "TextChannel"
              THEN /\ response' = "Output must be a text channel."
                   /\ pending' = rest
              ELSE /\ response' = ""
                   /\ pending' = rest (+)
                         SetToBag({[pc |-> "ack", key |-> key, out_ch |-> out_ch]})

\* slip: the old task is looked up with get and cancelled, its entry stays
\* until the new task overwrites it
StartResolved_KeepsEntry(key, out_ch, ch, rest) ==
    IF ch = "NotFound" THEN
        /\ response' = "fetch_channel failed"
        /\ pending' = rest
        /\ UNCHANGED <<active_archives, tasks>>
    ELSE IF ch # "TextChannel" THEN
        /\ response' = "Source channel is not a text channel."
        /\ pending' = rest
        /\ UNCHANGED <<active_archives, tasks>>
    ELSE IF out_ch # "TextChannel" THEN
        /\ response' = "Output must be a text channel."
        /\ pending' = rest
        /\ UNCHANGED <<active_archives, tasks>>
    ELSE
        LET old == Popped(key)
        IN /\ active_archives' = active_archives
           /\ tasks' = IF old # 0 /\ ~done(old) THEN Cancelled(tasks, old) ELSE tasks
           /\ pending' = rest (+) SetToBag({[pc |-> "ack", key |-> key, out_ch |-> out_ch]})
           /\ response' = ""

\* from the result of get_text_channel to the await of the acknowledgement
StartResolved(key, out_ch, ch, rest) ==
    IF ch = "NotFound" THEN
        /\ response' = "fetch_channel failed"
        /\ pending' = rest
        /\ UNCHANGED <<active_archives, tasks>>
    ELSE IF ch # "TextChannel" THEN
        /\ response' = "Source channel is not a text channel."
        /\ pending' = rest
        /\ UNCHANGED <<active_archives, tasks>>
    ELSE IF out_ch # "TextChannel" THEN
        /\ response' = "Output must be a text channel."
        /\ pending' = rest
        /\ UNCHANGED <<active_archives, tasks>>
    ELSE
        LET old == Popped(key)
        IN /\ active_archives' = WithoutKey(key)
           /\ tasks' = IF old # 0 /\ ~done(old) THEN Cancelled(tasks, old) ELSE tasks
           /\ pending' = rest (+) SetToBag({[pc |-> "ack", key |-> key, out_ch |-> out_ch]})
           /\ response' = ""

\* mode == "start", up to the first await: get_text_channel raises, finds the
\* channel in the cache (bot.get_channel) or awaits bot.fetch_channel
Start(key, out_ch) ==
    IF SOURCE_CHANNEL_ID = 0 THEN Reject("SOURCE_CHANNEL_ID not set.")
    ELSE \/ \E ch \in ResolvedChannels \ {"NotFound"} :
               StartResolved(key, out_ch, ch, pending)
         \/ /\ pending' = pending (+)
                   SetToBag({[pc |-> "fetch_channel", key |-> key, out_ch |-> out_ch]})
            /\ response' = ""
            /\ UNCHANGED <<active_archives, tasks>>

\* the handler from its entry to its first await or its return
archieved(user, mode, guild_id, output_channel, channel) ==
    IF ~is_owner(user) THEN Reject("Owner-only command.")
    ELSE LET m == normalized[mode]
             key == <<IF guild_id # None THEN guild_id[1] ELSE 0, user>>
             out_ch == IF output_channel # None THEN output_channel[1] ELSE channel
         IN IF m \notin {s_start, s_stop} THEN Reject("Mode must be start or stop.")
            ELSE IF m = s_stop THEN Stop(key)
            ELSE /\ Len(tasks) + BagCardinality(pending) < MaxTasks
                 /\ Start(key, out_ch)

\* An argument the handler does not read on a path has no influence on the
\* step, so the arguments are enumerated only on the paths that read them.
ModesRead(user) == IF is_owner(user) THEN Modes ELSE {s_start}
GuildsRead(user, mode) ==
    IF is_owner(user) /\ normalized[mode] \in {s_start, s_stop}
    THEN GuildIds ELSE {None}
ChannelsRead(user, mode) ==
    IF is_owner(user) /\ normalized[mode] = s_start
    THEN OutputArgs \X InvokeChannels ELSE {<<None, "TextChannel">>}

\* an /archieved interaction arrives and its handler runs to its first await
Invoke ==
    /\ \E user \in UserIds :
         \E mode \in ModesRead(user) :
           \E guild_id \in GuildsRead(user, mode), c \in ChannelsRead(user, mode) :
             archieved(user, mode, guild_id, c[1], c[2])
    /\ Frame

\* bot.fetch_channel returns or raises
ChannelFetched ==
    /\ \E h \in BagToSet(pending), ch \in ResolvedChannels :
          /\ h.pc = "fetch_channel"
          /\ StartResolved(h.key, h.out_ch, ch, pending (-) SetToBag({h}))
    /\ Frame

\* lines 171-172, after the acknowledgement was sent
Register(h) ==
    /\ tasks' = Append(tasks, NewTask(h.key))
    /\ active_archives' =
          [k \in DOMAIN active_archives \cup {h.key} |->
              IF k = h.key THEN Len(tasks) + 1 ELSE active_archives[k]]

AckSent ==
    /\ \E h \in BagToSet(pending) :
          /\ h.pc = "ack"
          /\ pending' = pending (-) SetToBag({h})
          /\ Register(h)
    /\ response' = "started"
    /\ Frame

\* interaction.response.send_message raises: the handler ends there
AckFailed ==
    /\ \E h \in BagToSet(pending) :
          /\ h.pc = "ack"
          /\ pending' = pending (-) SetToBag({h})
    /\ response' = ""
    /\ UNCHANGED <<active_archives, tasks>>
    /\ Frame

-----------------------------------------------------------------------------
(* runner() *)

\* a step of task t that leaves it as record r
RunnerStep(t, r) ==
    /\ tasks' = [tasks EXCEPT ![t] = r]
    /\ response' = ""
    /\ UNCHANGED <<active_archives, pending>>
    /\ Frame

\* top of the while loop: find_latest_image is called and awaited
CallExtract(r) == [r EXCEPT !.pc = "extract", !.note = ""]

\* first step of the coroutine: the session is opened, the loop entered
RunnerStart(t) ==
    /\ tasks[t].pc = "created"
    /\ ~tasks[t].cancel
    /\ RunnerStep(t, CallExtract([tasks[t] EXCEPT !.session = "open"]))

\* not sig or not url
NothingFound(sig, url) == sig = None \/ url = None \/ url[1] = ""

\* slip: the signature is recorded as soon as it is seen to have changed
AfterExtract_RecordsEarly(r, found) ==
    IF NothingFound(found[1], found[2]) THEN [r EXCEPT !.pc = "sleep_none"]
    ELSE IF found[1] = r.last_sig THEN [r EXCEPT !.pc = "sleep_same"]
    ELSE [r EXCEPT !.pc = "fetch", !.sig = found[1], !.url = found[2],
                   !.last_sig = found[1],
                   !.failed_sig = IF found[1] = r.failed_sig THEN found[1] ELSE None]

\* lines 133-146: the branch taken on the extractor's result
AfterExtract(r, found) ==
    IF NothingFound(found[1], found[2]) THEN [r EXCEPT !.pc = "sleep_none"]
    ELSE IF found[1] = r.last_sig THEN [r EXCEPT !.pc = "sleep_same"]
    ELSE [r EXCEPT !.pc = "fetch", !.sig = found[1], !.url = found[2],
                   !.failed_sig = IF found[1] = r.failed_sig THEN found[1] ELSE None]

ExtractReturns(t) ==
    /\ tasks[t].pc = "extract"
    /\ ~tasks[t].cancel
    /\ RunnerStep(t, AfterExtract(tasks[t], find_latest_image(history)))

\* slip: the signature of the image that could not be fetched or posted is
\* recorded, so the image is skipped
OnError_Records(r, where) ==
    [r EXCEPT !.pc = "warn", !.note = where, !.sig = None, !.url = None,
              !.last_sig = IF where = "extract" THEN r.last_sig ELSE r.sig,
              !.failed_sig = IF where = "extract" THEN r.failed_sig ELSE r.sig]

\* except Exception: the warning is posted to out_ch
OnError(r, where) ==
    [r EXCEPT !.pc = "warn", !.note = where, !.sig = None, !.url = None,
              !.failed_sig = IF where = "extract" THEN r.failed_sig ELSE r.sig]

\* slip: a task whose extractor fails takes its key out of the registry
ExtractRaises_Unregisters(t) ==
    /\ tasks[t].pc = "extract"
    /\ ~tasks[t].cancel
    /\ tasks' = [tasks EXCEPT ![t] = OnError(tasks[t], "extract")]
    /\ active_archives' = WithoutKey(tasks[t].key)
    /\ response' = ""
    /\ UNCHANGED pending
    /\ Frame

ExtractRaises(t) ==
    /\ tasks[t].pc = "extract"
    /\ ~tasks[t].cancel
    /\ RunnerStep(t, OnError(tasks[t], "extract"))

\* slip: the continue of lines 138 and 143 is missing, the sleep of line 169
\* follows
SleepInTryDone_FallsThrough(t) ==
    /\ tasks[t].pc \in {"sleep_none", "sleep_same"}
    /\ ~tasks[t].cancel
    /\ RunnerStep(t, [tasks[t] EXCEPT !.pc = "sleep_end", !.note = "idle"])

\* asyncio.sleep inside the try block returns; continue
SleepInTryDone(t) ==
    /\ tasks[t].pc \in {"sleep_none", "sleep_same"}
    /\ ~tasks[t].cancel
    /\ RunnerStep(t, CallExtract(tasks[t]))

\* session.get, raise_for_status and read succeeded; out_ch.send is awaited
FetchOk(t) ==
    /\ tasks[t].pc = "fetch"
    /\ ~tasks[t].cancel
    /\ RunnerStep(t, [tasks[t] EXCEPT !.pc = "post"])

\* slip: line 147 is missing, the body of an error response is posted
FetchRaises_NoStatusCheck(t) ==
    /\ tasks[t].pc = "fetch"
    /\ ~tasks[t].cancel
    /\ RunnerStep(t, [tasks[t] EXCEPT !.pc = "post"])

FetchRaises(t) ==
    /\ tasks[t].pc = "fetch"
    /\ ~tasks[t].cancel
    /\ RunnerStep(t, OnError(tasks[t], "fetch"))

\* slip: line 156 is missing
AfterPost_NotRecorded(r) ==
    [r EXCEPT !.last_sent = r.sig, !.pc = "sleep_end",
              !.note = "sent", !.sig = None, !.url = None, !.failed_sig = None]

\* out_ch.send returned: line 156, then the sleep of line 169
AfterPost(r) ==
    [r EXCEPT !.last_sig = r.sig, !.last_sent = r.sig, !.pc = "sleep_end",
              !.note = "sent", !.sig = None, !.url = None, !.failed_sig = None]

PostOk(t) ==
    /\ tasks[t].pc = "post"
    /\ ~tasks[t].cancel
    /\ RunnerStep(t, AfterPost(tasks[t]))

PostRaises(t) ==
    /\ tasks[t].pc = "post"
    /\ ~tasks[t].cancel
    /\ RunnerStep(t, OnError(tasks[t], "post"))

\* slip: a failure of the warning post is not caught and ends the task
AfterWarn_Raises(r, sent) ==
    IF sent THEN [r EXCEPT !.pc = "sleep_end", !.note = "warned"]
    ELSE [r EXCEPT !.pc = "done", !.note = "warn", !.session = "closed"]

\* the warning post returned or raised (except Exception: pass)
AfterWarn(r, sent) ==
    [r EXCEPT !.pc = "sleep_end", !.note = IF sent THEN "warned" ELSE "warn_lost"]

WarnDone(t) ==
    /\ tasks[t].pc = "warn"
    /\ ~tasks[t].cancel
    /\ \E sent \in BOOLEAN : RunnerStep(t, AfterWarn(tasks[t], sent))

\* asyncio.sleep of line 169 returns
SleepEndDone(t) ==
    /\ tasks[t].pc = "sleep_end"
    /\ ~tasks[t].cancel
    /\ RunnerStep(t, CallExtract(tasks[t]))

\* slip: the handler around the warning post catches the cancellation too
OnCancelled_Swallowed(r) ==
    IF r.pc = "warn" THEN [r EXCEPT !.pc = "sleep_end", !.note = "warn_lost"]
    ELSE [r EXCEPT !.pc = "done", !.note = r.pc, !.sig = None, !.url = None,
                   !.failed_sig = None,
                   !.session = IF r.pc = "created" THEN "none" ELSE "closed"]

\* slip: the session is closed at the break of line 159 only, not when the
\* cancellation propagates out of the async with block
OnCancelled_Leaks(r) ==
    [r EXCEPT !.pc = "done", !.note = r.pc, !.sig = None, !.url = None,
              !.failed_sig = None,
              !.session = IF r.pc = "created" THEN "none"
                          ELSE IF r.pc \in {"warn", "sleep_end"} THEN "open"
                          ELSE "closed"]

\* CancelledError raised at the await the task is suspended at. Inside the
\* try block it is caught (break); at the warning post and at the sleep of
\* line 169 it propagates; both leave the async with block, closing the
\* session. A task cancelled before its first step never runs its body.
OnCancelled(r) ==
    [r EXCEPT !.pc = "done", !.note = r.pc, !.sig = None, !.url = None,
              !.failed_sig = None,
              !.session = IF r.pc = "created" THEN "none" ELSE "closed"]

RunnerCancelled(t) ==
    /\ tasks[t].pc # "done"
    /\ tasks[t].cancel
    /\ RunnerStep(t, OnCancelled(tasks[t]))

Runner(t) ==
    \/ RunnerStart(t)
    \/ ExtractReturns(t)
    \/ ExtractRaises(t)
    \/ SleepInTryDone(t)
    \/ FetchOk(t)
    \/ FetchRaises(t)
    \/ PostOk(t)
    \/ PostRaises(t)
    \/ WarnDone(t)
    \/ SleepEndDone(t)
    \/ RunnerCancelled(t)

-----------------------------------------------------------------------------
(* Source channel *)

\* somebody posts an image to the source channel (histories that hold
\* messages without images are the subject of SpecExtract)
NewMessage ==
    /\ Len(history) < MaxMsgs
    /\ history' = <<ImageMessage(Len(history) + 1)>> \o history
    /\ response' = ""
    /\ UNCHANGED <<BOT_OWNER_ID, SOURCE_CHANNEL_ID, active_archives, pending, tasks, probe>>

-----------------------------------------------------------------------------
(* The bot *)

Init ==
    /\ BOT_OWNER_ID \in OwnerIds
    /\ SOURCE_CHANNEL_ID \in SourceIds
    /\ history = << >>
    /\ active_archives = << >>
    /\ pending = EmptyBag
    /\ tasks = << >>
    /\ response = ""
    /\ probe = << >>

Next ==
    \/ Invoke
    \/ ChannelFetched
    \/ AckSent
    \/ AckFailed
    \/ NewMessage
    \/ \E t \in TaskIds : Runner(t)

Spec == Init /\ [][Next]_vars

-----------------------------------------------------------------------------
(* One runner task: the bot right after the owner's first start, with the  *)
(* source channel, the task and the owner's stop commands                  *)

InitRunner ==
    /\ BOT_OWNER_ID = 1
    /\ SOURCE_CHANNEL_ID = 7
    /\ history = << >>
    /\ active_archives = (<<0, 1>> :> 1)
    /\ pending = EmptyBag
    /\ tasks = <<NewTask(<<0, 1>>)>>
    /\ response = "started"
    /\ probe = << >>

\* /archieved stop by the owner
StopCommand ==
    /\ \E guild_id \in GuildIds :
          archieved(BOT_OWNER_ID, <<"S", "t", "o", "p", " ">>, guild_id, None, "TextChannel")
    /\ Frame

NextRunner ==
    \/ StopCommand
    \/ NewMessage
    \/ \E t \in TaskIds : Runner(t)

\* The event loop resumes every task whose await has completed, and every
\* sleep, request and post ends by returning or raising.
RunnerOf(t) == t \in TaskIds /\ Runner(t)

RunnerSpec ==
    /\ InitRunner
    /\ [][NextRunner]_vars
    /\ \A t \in 1..MaxTasks : WF_vars(RunnerOf(t))

\* In addition no operation of a cycle fails forever: an extraction, a fetch
\* or a post that is attempted again and again succeeds again and again.
RetrySpec ==
    /\ RunnerSpec
    /\ \A t \in 1..MaxTasks :
          /\ SF_vars(t \in TaskIds /\ ExtractReturns(t))
          /\ SF_vars(t \in TaskIds /\ FetchOk(t))
          /\ SF_vars(t \in TaskIds /\ PostOk(t))

-----------------------------------------------------------------------------
(* find_latest_image on its own: channel histories drawn from a bounded set *)

SeqsUpTo(S, n) == UNION {[1..k -> S] : k \in 0..n}

ContentTypes == {None, Some(s_image_png), Some(s_text_plain)}
\* embeds without an image, with an image that has an empty url, with an image
EmbedKinds == {"none", "empty", "image"}
EditedAts == {None, Some(1700)}
\* runs of messages without an image between the newest and the older message
PadSizes == {0, LOOKBACK - 2, LOOKBACK - 1, LOOKBACK}

AttachmentUrl(i) == <<"a1.png", "a2.png", "a3.png", "a4.png">>[i]
EmbedUrl(i) == <<"e1.png", "e2.png", "e3.png", "e4.png">>[i]

Attachments(cts) ==
    [i \in 1..Len(cts) |-> [content_type |-> cts[i], url |-> AttachmentUrl(i)]]

Embeds(kinds) ==
    [i \in 1..Len(kinds) |->
        [image |-> CASE kinds[i] = "none" -> None
                     [] kinds[i] = "empty" -> Some([url |-> Some("")])
                     [] OTHER -> Some([url |-> Some(EmbedUrl(i))])]]

\* message contents, before ids are given
Shapes ==
    {[edited_at |-> ed, attachments |-> Attachments(cts), embeds |-> Embeds(kinds)] :
        ed \in EditedAts,
        cts \in SeqsUpTo(ContentTypes, MaxParts),
        kinds \in SeqsUpTo(EmbedKinds, MaxParts)}

SimpleShapes ==
    {[edited_at |-> None, attachments |-> Attachments(cts), embeds |-> Embeds(kinds)] :
        cts \in {<< >>, <<Some(s_image_png)>>}, kinds \in {<< >>, <<"image">>}}

Pad(n) == [i \in 1..n |-> [edited_at |-> None, attachments |-> << >>, embeds |-> << >>]]

\* ids grow with time: the newest message, first in the history, has the largest
WithIds(shapes) ==
    [i \in 1..Len(shapes) |->
        [id |-> Len(shapes) - i + 1, edited_at |-> shapes[i].edited_at,
         attachments |-> shapes[i].attachments, embeds |-> shapes[i].embeds]]

TestHistories ==
    {WithIds(newest \o Pad(n) \o older) :
        newest \in SeqsUpTo(SimpleShapes, 1), n \in PadSizes, older \in SeqsUpTo(Shapes, 1)}

InitExtract ==
    /\ BOT_OWNER_ID = 1
    /\ SOURCE_CHANNEL_ID = 7
    /\ history \in TestHistories
    /\ active_archives = << >>
    /\ pending = EmptyBag
    /\ tasks = << >>
    /\ response = ""
    /\ probe = << >>

\* sig, url = await find_latest_image(source_channel)
Probe ==
    /\ probe = << >>
    /\ probe' = find_latest_image(history)
    /\ UNCHANGED <<BOT_OWNER_ID, SOURCE_CHANNEL_ID, history, active_archives, pending,
                   tasks, response>>

NextExtract == Probe

SpecExtract == InitExtract /\ [][NextExtract]_vars

-----------------------------------------------------------------------------
(* Properties *)

Keys == {<<IF g # None THEN g[1] ELSE 0, u>> : g \in GuildIds, u \in UserIds}

LiveTasksOf(key) == {t \in TaskIds : tasks[t].key = key /\ Live(t)}

\* C1: in every reachable state each key (guild id, user id) has at most one
\* live runner task, whatever the interleaving of the start and stop handlers.
OneLiveTaskPerKey == \A key \in Keys : Cardinality(LiveTasksOf(key)) <= 1

\* C2: a stop on key k cancels the live task the registry holds under k,
\* removes the entry and reports success; when the registry holds no live task
\* under k it reports that nothing is running, requests no cancellation of any
\* task, and leaves the registry without an entry for k.
StopContract ==
    [][\A key \in Keys :
          (Stop(key) /\ Frame) =>
              IF key \in DOMAIN active_archives /\ Live(active_archives[key])
              THEN /\ tasks'[active_archives[key]].cancel
                   /\ key \notin DOMAIN active_archives'
                   /\ response' = "stopped"
              ELSE /\ response' = "No active /archieved running."
                   /\ \A t \in TaskIds : tasks'[t].cancel = tasks[t].cancel
                   /\ key \notin DOMAIN active_archives']_vars

\* a stop has just cancelled one task while a task of another key keeps running
StopWitness ==
    /\ response = "stopped"
    /\ \E t1, t2 \in TaskIds :
          /\ tasks[t1].cancel /\ ~done(t1)
          /\ tasks[t1].key \notin DOMAIN active_archives
          /\ Live(t2)

\* C3: within one task a successful repost is never for the signature of the
\* task's previous successful repost, and a cycle that sees the recorded
\* signature issues no fetch and no post.
NoRepeatedRepost ==
    /\ [](\A t \in TaskIds :
            tasks[t].pc \in {"fetch", "post"} => tasks[t].sig # tasks[t].last_sig)
    /\ [][\A t \in TaskIds :
            (tasks[t].pc = "post" /\ tasks'[t].pc = "sleep_end"
                /\ tasks'[t].note = "sent")
            => tasks[t].sig # tasks[t].last_sent]_vars

\* a later cycle saw the signature already reposted and is sleeping
UnchangedCycleWitness ==
    \E t \in TaskIds :
        /\ tasks[t].pc = "sleep_same"
        /\ tasks[t].last_sent # None
        /\ tasks[t].last_sent = find_latest_image(history)[1]

\* C4: last_sig starts absent and changes only in the step that ends a
\* successful post, where it becomes the signature extracted in that cycle; so
\* it is always absent or the signature of the task's latest successful repost.
LastSigDiscipline ==
    /\ [](\A t \in TaskIds :
            /\ tasks[t].last_sig = tasks[t].last_sent
            /\ tasks[t].pc = "created" => tasks[t].last_sig = None)
    /\ [][/\ \A t \in TaskIds :
               tasks'[t].last_sig # tasks[t].last_sig =>
                   /\ tasks[t].pc = "post"
                   /\ tasks'[t].note = "sent"
                   /\ tasks'[t].last_sig = tasks[t].sig
          /\ \A t \in (1..Len(tasks')) \ TaskIds : tasks'[t].last_sig = None]_vars

\* a post failed for a new image after an earlier repost: last_sig kept
FailedPostWitness ==
    \E t \in TaskIds :
        /\ tasks[t].pc = "warn"
        /\ tasks[t].note = "post"
        /\ tasks[t].last_sig # None
        /\ tasks[t].last_sig # find_latest_image(history)[1]

\* C7: a task ends only when cancellation was requested; an error raised by
\* the extractor, the fetch or the post leads to the warning post, and after
\* the warning post, sent or failed, the task sleeps and starts its next cycle.
OnlyCancellationEnds ==
    [][\A t \in TaskIds :
          /\ (~done(t) /\ tasks'[t].pc = "done") => tasks[t].cancel
          /\ (ExtractRaises(t) \/ FetchRaises(t) \/ PostRaises(t))
                => tasks'[t].pc = "warn"
          /\ (tasks[t].pc = "warn" /\ ~tasks[t].cancel /\ tasks'[t].pc # "warn")
                => tasks'[t].pc = "sleep_end"
          /\ (tasks[t].pc = "sleep_end" /\ ~tasks[t].cancel /\ tasks'[t].pc # "sleep_end")
                => tasks'[t].pc = "extract"]_vars

\* the warning post itself failed and the task went on to its next cycle
WarningLostWitness ==
    \E t \in TaskIds :
        /\ tasks[t].pc = "sleep_end"
        /\ tasks[t].note = "warn_lost"
        /\ Live(t)

\* C8: find_latest_image returns the image of the newest of the 30 newest
\* messages that carries one: its first attachment whose content type starts
\* with "image/", else its first embed with a non-empty image url, with the
\* signature made of the message id, the edit timestamp or 0 and that url; it
\* returns (None, None) when no message of the window carries an image.
IsImageType(ct) ==
    /\ ct # None
    /\ Len(ct[1]) >= 6
    /\ \A k \in 1..6 : ct[1][k] = s_image_slash[k]

ImageAttachments(msg) ==
    {j \in 1..Len(msg.attachments) : IsImageType(msg.attachments[j].content_type)}

ImageEmbeds(msg) ==
    {j \in 1..Len(msg.embeds) :
        msg.embeds[j].image \notin {None, Some([url |-> Some("")])}}

Least(S) == CHOOSE x \in S : \A y \in S : x <= y

ExpectedImage(h) ==
    LET n == IF Len(h) < 30 THEN Len(h) ELSE 30
        carrying == {i \in 1..n : ImageAttachments(h[i]) \cup ImageEmbeds(h[i]) # {}}
    IN IF carrying = {} THEN <<None, None>>
       ELSE LET msg == h[Least(carrying)]
                url == IF ImageAttachments(msg) # {}
                       THEN msg.attachments[Least(ImageAttachments(msg))].url
                       ELSE msg.embeds[Least(ImageEmbeds(msg))].image[1].url[1]
                edited == IF msg.edited_at = None THEN 0 ELSE msg.edited_at[1]
            IN <<<<msg.id, ":", edited, ":", url>>, Some(url)>>

NewestImageFound == probe # << >> => probe = ExpectedImage(history)

\* the image is the second attachment of an edited message that is not the
\* newest one and that also has an image embed
AttachmentOverEmbedWitness ==
    /\ probe # << >>
    /\ \E i \in 2..Len(history) :
          /\ probe = <<<<history[i].id, ":", 1700, ":", "a2.png">>, Some("a2.png")>>
          /\ ImageEmbeds(history[i]) # {}

\* C9: a command of a user who is not the configured owner, and of any user
\* when no owner is configured, is rejected and changes neither the registry
\* nor any task nor the handlers in flight.
NotTheOwner(user) == BOT_OWNER_ID = 0 \/ user # BOT_OWNER_ID

\* every step of a handler answers the invoker or changes the handlers in flight
HandlerActed == response' # "" \/ pending' # pending

NonOwnerRejected ==
    [][\A user \in UserIds :
          (NotTheOwner(user) /\ HandlerActed) =>
              \A mode \in Modes, guild_id \in GuildIds,
                 output_channel \in OutputArgs, channel \in InvokeChannels :
                  (archieved(user, mode, guild_id, output_channel, channel) /\ Frame)
                  => /\ response' = "Owner-only command."
                     /\ UNCHANGED <<active_archives, tasks, pending>>]_vars

\* somebody else's command was rejected while the owner's archiver runs
NonOwnerWitness ==
    /\ response = "Owner-only command."
    /\ BOT_OWNER_ID # 0
    /\ \E t \in TaskIds :
          /\ Live(t)
          /\ tasks[t].key \in DOMAIN active_archives
          /\ active_archives[tasks[t].key] = t

\* C10: a command rejected for its mode, for the source channel being unset
\* or not a text channel, or for an output channel that is not a text channel
\* leaves the registry and every task as they were.
RejectionMessages ==
    {"Mode must be start or stop.", "SOURCE_CHANNEL_ID not set.",
     "Source channel is not a text channel.", "fetch_channel failed",
     "Output must be a text channel."}

RegistryKept == active_archives' = active_archives /\ tasks' = tasks

\* what a command is rejected for, "" when its arguments are accepted
Fault(mode, output_channel, channel) ==
    LET m == normalized[mode]
        out_ch == IF output_channel = None THEN channel ELSE output_channel[1]
    IN IF m \notin {s_start, s_stop} THEN "mode"
       ELSE IF m = s_stop THEN ""
       ELSE IF SOURCE_CHANNEL_ID = 0 THEN "source"
       ELSE IF out_ch # "TextChannel" THEN "output"
       ELSE ""

RejectedCommandFrame ==
    [][/\ response' \in RejectionMessages => RegistryKept
       /\ \A user \in UserIds, mode \in Modes,
             output_channel \in OutputArgs, channel \in InvokeChannels :
            LET fault == Fault(mode, output_channel, channel)
            IN (~NotTheOwner(user) /\ fault # "" /\ HandlerActed) =>
                 \A guild_id \in GuildIds :
                    (archieved(user, mode, guild_id, output_channel, channel) /\ Frame)
                    => /\ RegistryKept
                       /\ fault = "mode" => response' = "Mode must be start or stop."
                       /\ fault = "source" => response' = "SOURCE_CHANNEL_ID not set."
                       /\ fault = "output" => \/ response' \in RejectionMessages
                                              \/ pending' # pending
       /\ \A h \in BagToSet(pending) :
            (h.pc = "fetch_channel" /\ h.out_ch # "TextChannel"
                /\ pending' = pending (-) SetToBag({h}))
            => RegistryKept /\ response' \in RejectionMessages]_vars

\* a start was rejected for its output channel while the registered task runs
RejectedStartWitness ==
    /\ response = "Output must be a text channel."
    /\ \E t \in TaskIds :
          /\ Live(t)
          /\ tasks[t].pc \notin {"created", "done"}
          /\ tasks[t].key \in DOMAIN active_archives
          /\ active_archives[tasks[t].key] = t

\* C5: while a task is not cancelled and the extractor returns a signature s,
\* the task eventually reposts s and records it, provided extraction, fetch
\* and post do not fail forever; a cycle whose fetch or post failed is
\* followed by a cycle, and a cycle that finds a signature other than
\* last_sig goes on to the fetch.
PossibleSigs == {Signature(id, 0, "x.png") : id \in 1..MaxMsgs}

Wanted(t, s) ==
    /\ t \in TaskIds
    /\ ~tasks[t].cancel
    /\ find_latest_image(history)[1] = s

Reposted(t, s) ==
    /\ t \in TaskIds
    /\ tasks[t].last_sig = s
    /\ tasks[t].last_sent = s

FailedCycle(t) ==
    /\ t \in TaskIds
    /\ tasks[t].pc = "warn"
    /\ tasks[t].note \in {"fetch", "post"}

NextCycle(t) == t \in TaskIds /\ (tasks[t].cancel \/ tasks[t].pc = "extract")

RetryLiveness ==
    /\ \A t \in 1..MaxTasks, s \in PossibleSigs :
          Wanted(t, s) ~> (Reposted(t, s) \/ ~Wanted(t, s))
    /\ \A t \in 1..MaxTasks : FailedCycle(t) ~> NextCycle(t)
    /\ [][\A t \in TaskIds :
            (tasks[t].pc = "extract" /\ tasks'[t].pc \in {"sleep_none", "sleep_same"})
            => \/ find_latest_image(history)[1] = None
               \/ find_latest_image(history)[1] = tasks[t].last_sig]_vars

\* the cycle after a failed fetch or post found the same image, fetched it
\* again and is posting it
RetriedWitness ==
    \E t \in TaskIds :
        /\ tasks[t].pc = "post"
        /\ tasks[t].failed_sig = tasks[t].sig
        /\ ~tasks[t].cancel

\* C6: a task whose cancellation was requested takes no step but the one that
\* ends it, at whichever await it is suspended, and it does end.
CancelTerminates ==
    /\ [][\A t \in TaskIds :
            tasks[t].cancel => tasks'[t].pc \in {tasks[t].pc, "done"}]_vars
    /\ \A t \in 1..MaxTasks :
          (t \in TaskIds /\ tasks[t].cancel) ~> (t \in TaskIds /\ tasks[t].pc = "done")

\* cancellation was observed at the sleep that ends a cycle, outside the try
CancelledInSleepWitness ==
    \E t \in TaskIds :
        /\ done(t)
        /\ tasks[t].cancel
        /\ tasks[t].note = "sleep_end"

\* the key of a command, from its guild and its invoker
KeyOf(guild_id, user) == <<IF guild_id = None THEN 0 ELSE guild_id[1], user>>

\* the entries and the tasks of every key but this one are as they were
OthersKept(key) ==
    /\ \A k \in Keys \ {key} :
          /\ (k \in DOMAIN active_archives') = (k \in DOMAIN active_archives)
          /\ k \in DOMAIN active_archives => active_archives'[k] = active_archives[k]
    /\ \A t \in TaskIds : tasks[t].key # key => tasks'[t] = tasks[t]

\* C11: a start or stop command with key k = (guild id or 0, user id) neither
\* cancels nor removes nor replaces the task registered under another key, at
\* its first step and at every later step of its handler; tasks of distinct
\* keys are live and registered side by side. (A step that changes neither
\* the registry nor a task keeps every key, so only the others are examined.)
KeyIndependence ==
    [][(HandlerActed /\ (active_archives' # active_archives \/ tasks' # tasks)) =>
         /\ \A user \in UserIds, mode \in Modes, guild_id \in GuildIds,
               output_channel \in OutputArgs, channel \in InvokeChannels :
                (archieved(user, mode, guild_id, output_channel, channel) /\ Frame)
                => OthersKept(KeyOf(guild_id, user))
         /\ \A h \in BagToSet(pending) :
                CopiesIn(h, pending') < CopiesIn(h, pending) => OthersKept(h.key)]_vars

\* a start in one guild has just registered its task while the task the same
\* user started elsewhere keeps running under its own key
KeyIndependenceWitness ==
    /\ response = "started"
    /\ \E t1, t2 \in TaskIds :
          /\ tasks[t1].key # tasks[t2].key
          /\ Live(t1) /\ tasks[t1].pc \notin {"created", "done"}
          /\ Live(t2) /\ tasks[t2].pc = "created"
          /\ \A t \in {t1, t2} :
                /\ tasks[t].key \in DOMAIN active_archives
                /\ active_archives[tasks[t].key] = t

\* C12: the session of a task is open exactly from the task's first step to
\* its end: a task that has ended after running has its session closed, at
\* whichever await the cancellation was observed, a closed session stays
\* closed, and a task that is fetching holds an open session.
SessionScoped ==
    /\ [](\A t \in TaskIds :
            /\ (tasks[t].session = "open") = (tasks[t].pc \notin {"created", "done"})
            /\ (done(t) /\ tasks[t].note # "created") => tasks[t].session = "closed"
            /\ tasks[t].pc = "fetch" => tasks[t].session = "open")
    /\ [][\A t \in TaskIds :
            /\ tasks[t].session = "closed" => tasks'[t].session = "closed"
            /\ tasks'[t].pc \in {"post", "warn"} /\ tasks[t].pc = "fetch"
                  => tasks[t].session = "open"]_vars

\* the cancellation was observed at the warning post, from where it
\* propagates, and the session is closed
SessionClosedWitness ==
    \E t \in TaskIds :
        /\ done(t)
        /\ tasks[t].note = "warn"
        /\ tasks[t].session = "closed"

\* the step in which an extraction, a fetch, a post or a warning post of
\* task t fails
CycleError(t) ==
    \/ tasks[t].pc \in {"extract", "fetch", "post"} /\ tasks'[t].pc = "warn"
    \/ /\ tasks[t].pc = "warn"
       /\ tasks'[t].pc = "sleep_end"
       /\ tasks'[t].note = "warn_lost"

\* C13: a cycle error of one task (extractor, fetch, post or warning post
\* failing) changes neither the registry nor the handlers in flight nor any
\* other task: its last_sig, its cancellation flag and its position stay.
TaskIsolation ==
    [][\A t \in TaskIds :
          CycleError(t) =>
              /\ active_archives' = active_archives
              /\ pending' = pending
              /\ Len(tasks') = Len(tasks)
              /\ \A u \in TaskIds \ {t} : tasks'[u] = tasks[u]]_vars

\* one task is at its warning post after a failed fetch or post while
\* another one, which has reposted an image, is live and registered
IsolationWitness ==
    \E t, u \in TaskIds :
        /\ t # u
        /\ tasks[t].pc = "warn" /\ tasks[t].note \in {"fetch", "post"}
        /\ Live(u) /\ tasks[u].last_sig # None
        /\ tasks[u].key \in DOMAIN active_archives
        /\ active_archives[tasks[u].key] = u

\* the start handlers at the acknowledgement, as they can be in flight
AckHandlers == {[pc |-> "ack", key |-> key, out_ch |-> "TextChannel"] : key \in Keys}

\* C14: a valid start on key k requests the cancellation of the task
\* registered under k in the step that removes its entry, before the new task
\* exists and without waiting for the old one to end; and the step in which
\* the handler completes, the acknowledgement sent or failed, creates a task
\* and leaves it as the registry entry of k.
StartReplaces ==
    [][\A h \in AckHandlers :
          /\ CopiesIn(h, pending') > CopiesIn(h, pending) =>
                /\ h.key \notin DOMAIN active_archives'
                /\ Len(tasks') = Len(tasks)
                /\ h.key \in DOMAIN active_archives =>
                      tasks'[active_archives[h.key]].cancel
          /\ CopiesIn(h, pending') < CopiesIn(h, pending) =>
                /\ Len(tasks') = Len(tasks) + 1
                /\ tasks'[Len(tasks')].key = h.key
                /\ h.key \in DOMAIN active_archives'
                /\ active_archives'[h.key] = Len(tasks')]_vars

\* task t is the registry entry of its key
Registered(t) ==
    /\ tasks[t].key \in DOMAIN active_archives
    /\ active_archives[tasks[t].key] = t

\* C15: every live task is the registry entry of its key, so that a stop
\* reaches it; and when a stop on key k is handled while no start handler of
\* k is in flight, no live task of k is left.
StopIsEffective ==
    /\ [](\A t \in TaskIds : Live(t) => Registered(t))
    /\ [][\A key \in Keys :
            (/\ Stop(key) /\ Frame
             /\ \A h \in BagToSet(pending) : h.key # key)
            => \A t \in TaskIds :
                  tasks'[t].key = key => (tasks'[t].cancel \/ tasks'[t].pc = "done")]_vars

\* C16: every task the registry holds is live, neither cancel-requested nor
\* finished, so the done() guards of lines 95 and 115 never fail for a stored
\* task; and a stop answers that nothing is running exactly when the registry
\* has no entry for its key.
RegistryHoldsLive ==
    /\ [](\A k \in DOMAIN active_archives :
            /\ active_archives[k] \in TaskIds
            /\ tasks[active_archives[k]].key = k
            /\ Live(active_archives[k]))
    /\ [][\A key \in Keys :
            (Stop(key) /\ Frame) =>
                ((response' = "No active /archieved running.")
                    = (key \notin DOMAIN active_archives))]_vars

\* the registry holds the running task that replaced another one of its
\* key, which is cancel-requested and has not ended yet
ReplacedWitness ==
    \E t, u \in TaskIds :
        /\ tasks[t].key = tasks[u].key
        /\ tasks[t].cancel /\ ~done(t)
        /\ Registered(u) /\ tasks[u].pc \notin {"created", "done"}

\* C17: a task starts with last_sig absent whatever the earlier tasks of its
\* key recorded; until its own first repost a cycle that finds an image never
\* takes the unchanged branch but goes on to the fetch, and the post that
\* succeeds is recorded as its repost.
FreshStart ==
    /\ [](\A t \in TaskIds :
            tasks[t].last_sent = None => tasks[t].last_sig = None)
    /\ [][/\ \A t \in (1..Len(tasks')) \ TaskIds :
               tasks'[t].last_sig = None /\ tasks'[t].last_sent = None
          /\ \A t \in TaskIds :
               (tasks[t].pc = "extract" /\ tasks[t].last_sent = None) =>
                   /\ tasks'[t].pc # "sleep_same"
                   /\ tasks'[t].pc = "sleep_none" => find_latest_image(history)[1] = None
                   /\ tasks'[t].pc = "fetch" => tasks'[t].sig = find_latest_image(history)[1]
          /\ \A t \in TaskIds :
               (tasks[t].pc = "post" /\ tasks'[t].pc = "sleep_end"
                    /\ tasks'[t].note = "sent")
               => tasks'[t].last_sent = tasks[t].sig]_vars

\* the task that replaced another one of its key has reposted the image the
\* replaced task had already reposted
RestartRepostWitness ==
    \E t, u \in TaskIds :
        /\ t < u
        /\ tasks[t].key = tasks[u].key
        /\ tasks[t].cancel
        /\ tasks[t].last_sent # None
        /\ tasks[u].last_sent = tasks[t].last_sent
        /\ tasks[u].note = "sent"

\* the awaits of asyncio.sleep(POLL_SECONDS)
Sleeps == {"sleep_none", "sleep_same", "sleep_end"}

\* C18: within a task every extractor call but the first follows a sleep,
\* and a sleep is followed by the next extractor call (or by the end of the
\* task), never by another sleep; each of the four ways a cycle can go (no
\* image, unchanged signature, repost, error with warning) leads to one sleep.
OneSleepPerCycle ==
    [][\A t \in TaskIds :
          LET p == tasks[t].pc
              q == tasks'[t].pc
          IN IF p = q THEN tasks'[t] = [tasks[t] EXCEPT !.cancel = tasks'[t].cancel]
             ELSE /\ q = "extract" => p \in Sleeps \cup {"created"}
                  /\ p \in Sleeps => q \in {"extract", "done"}
                  /\ p = "extract" => q \in {"sleep_none", "sleep_same", "fetch", "warn", "done"}
                  /\ p = "fetch" => q \in {"post", "warn", "done"}
                  /\ p = "post" => q \in {"sleep_end", "warn", "done"}
                  /\ p = "warn" => q \in {"sleep_end", "done"}]_vars

\* a task that has reposted an image is sleeping at the end of a later cycle
\* that failed and whose warning was posted
ErrorCycleSleepWitness ==
    \E t \in TaskIds :
        /\ tasks[t].pc = "sleep_end"
        /\ tasks[t].note = "warned"
        /\ tasks[t].last_sent # None
        /\ ~tasks[t].cancel

\* C19: a cycle goes extract, fetch, post, record: the fetch is for the url
\* the extractor returned in this cycle, the archive post is awaited only
\* from a fetch that succeeded and carries that signature, a fetch that fails
\* leads to the warning post and from there to the sleep with no archive
\* post, and last_sig is written only by the step that ends a successful post.
CycleOrder ==
    [][\A t \in TaskIds :
          LET r == tasks[t]
              q == tasks'[t]
          IN /\ (q.pc = "fetch" /\ r.pc # "fetch") =>
                    /\ r.pc = "extract"
                    /\ <<q.sig, q.url>> = find_latest_image(history)
             /\ (q.pc = "post" /\ r.pc # "post") =>
                    /\ r.pc = "fetch"
                    /\ q.sig = r.sig /\ q.url = r.url
             /\ FetchRaises(t) => (q.pc = "warn" /\ q.last_sent = r.last_sent)
             /\ (r.pc = "warn" /\ q.pc # "warn") => q.pc \in {"sleep_end", "done"}
             /\ q.last_sent # r.last_sent =>
                    /\ r.pc = "post"
                    /\ q.last_sent = r.sig
             /\ q.last_sig # r.last_sig =>
                    /\ r.pc = "post"
                    /\ q.last_sent = r.sig
                    /\ q.last_sig = r.sig]_vars

\* the first fetch of a task failed: the task is at the warning post, nothing
\* was posted to the archive and nothing is recorded
FailedFetchWitness ==
    \E t \in TaskIds :
        /\ tasks[t].pc = "warn"
        /\ tasks[t].note = "fetch"
        /\ tasks[t].last_sent = None
        /\ tasks[t].last_sig = None
        /\ tasks[t].failed_sig = find_latest_image(history)[1]

====
